---- MODULE Spec2Model ----
(***************************************************************************)
(* Hey-Care: the recording lifecycle of the VoiceRecorder component        *)
(* (src/VoiceRecorder.tsx) and the consumer callbacks of the Index page    *)
(* (src/src/pages/Index.tsx), with the patient record the page merges the  *)
(* stop-time analysis into.  The active tab of the page is not modelled.   *)
(*                                                                         *)
(* Text is a sequence of one-character strings.  A recognition stream is   *)
(* one SpeechRecognition object; it carries the value of recordingState    *)
(* that the render which created it had (the handlers assigned in          *)
(* startRecording close over that render's const recordingState).          *)
(***************************************************************************)
EXTENDS Integers, Sequences, FiniteSets, TLC

\* ------------------------------------------------------------- bounds
\* inputs accepted in one run: clicks that reach their handler, result events,
\* and faults (permission refused, start() throwing, recognition errors)
MaxInputs == 5

VARIABLES
    recordingState,     \* useState<RecordingState>('idle')
    transcript,         \* useState(''): the recorder's display
    error,              \* useState(''): the recorder's error message
    isSupported,        \* useState(true)
    recognitionRef,     \* useRef(null): index into streams, 0 for null
    fullTranscriptRef,  \* useRef(''): committed text
    streams,            \* the SpeechRecognition objects created so far
    pendingStarts,      \* startRecording calls awaiting getUserMedia
    restartTimers,      \* pending setTimeout(..., 100) callbacks of onend
    analyses,           \* pause-time onTranscriptAnalysis calls in flight
    currentTranscript,  \* Index: useState('') live transcript
    completed,          \* the transcripts passed to onRecordingComplete
    hasSR,              \* window.SpeechRecognition || webkitSpeechRecognition
    currentPatient,     \* Index: useState<PatientData>: the record of the form
    stopAnalyses,       \* handleRecordingComplete calls awaiting the analyzer
    toast,              \* title of the last toast shown
    parserStep,         \* transcriptParser: "idle", "input", "parsed", "merged"
    transcriptText,     \* the transcript given to parseTranscriptForPatientInfo
    parsed,             \* its ParsedPatientInfo
    existing,           \* the PatientData given to mergePatientData
    merged,             \* the PatientData mergePatientData returned
    store,              \* the rows of the patients table
    savedNotes,         \* Index: useState<PatientData[]>: the notes loaded
    saves,              \* handleSavePatient calls in flight
    nInputs,            \* inputs accepted so far (for MaxInputs)
    lastEvent           \* history: the end event or analysis completion that ran
                        \* last, "" after any other handler.  analysisOverwrote:
                        \* text was committed between request and rewrite;
                        \* ...Live: and the display still showed interim text;
                        \* stopAnalysisMerged / stopAnalysisFailed: the outcome
                        \* of a stop-time analysis

vars == <<recordingState, transcript, error, isSupported, recognitionRef,
          fullTranscriptRef, streams, pendingStarts, restartTimers, analyses,
          currentTranscript, completed, hasSR, currentPatient, stopAnalyses,
          toast, parserStep, transcriptText, parsed, existing, merged,
          store, savedNotes, saves, nInputs, lastEvent>>

\* what the recorder's own handlers leave alone
pageVars == <<currentPatient, stopAnalyses, toast>>

\* the state of the transcript parser, which no handler of the page uses
parserVars == <<parserStep, transcriptText, parsed, existing, merged>>

\* the patients table, the list loaded from it and the saves in flight
storeVars == <<store, savedNotes, saves>>

\* ------------------------------------------------------------- text
Empty == <<>>
Space == " "
NA == <<"N", "/", "A">>

\* String.prototype.trim: drop leading and trailing white space
RECURSIVE TrimLeft(_)
TrimLeft(s) ==
    IF s = Empty THEN Empty
    ELSE IF Head(s) = Space THEN TrimLeft(Tail(s)) ELSE s

RECURSIVE TrimRight(_)
TrimRight(s) ==
    IF s = Empty THEN Empty
    ELSE IF s[Len(s)] = Space THEN TrimRight(SubSeq(s, 1, Len(s) - 1)) ELSE s

Trim(s) == TrimRight(TrimLeft(s))

IsPrefix(p, s) == Len(p) <= Len(s) /\ SubSeq(s, 1, Len(p)) = p

RemoveAt(q, i) == SubSeq(q, 1, i - 1) \o SubSeq(q, i + 1, Len(q))

\* ------------------------------------------------------------- inputs
States == {"idle", "recording", "paused"}

\* event.results from event.resultIndex on: [text, isFinal] in order
ResultEvents ==
    { << [text |-> <<"h">>, isFinal |-> FALSE] >>,
      << [text |-> <<"h", ".">>, isFinal |-> TRUE] >>,
      << [text |-> <<"h", ".">>, isFinal |-> TRUE],
         [text |-> <<" ", "o">>, isFinal |-> FALSE] >> }

AllFinal(ev) == \A i \in 1..Len(ev) : ev[i].isFinal

\* event.error values; "aborted" stands for any kind without its own message
ErrorKinds == {"no-speech", "aborted"}

\* the speaker-labeled rewrite of a transcript ("D:" for the speaker label)
Labeled(t) == <<"D", ":">> \o t

\* supabase.functions.invoke('analyze-transcript') outcomes for a request
Responses(t) ==
    { [error |-> TRUE,  success |-> FALSE, hasData |-> FALSE, formattedTranscript |-> Empty],
      [error |-> FALSE, success |-> FALSE, hasData |-> TRUE,  formattedTranscript |-> Labeled(t)],
      [error |-> FALSE, success |-> TRUE,  hasData |-> FALSE, formattedTranscript |-> Empty],
      [error |-> FALSE, success |-> TRUE,  hasData |-> TRUE,  formattedTranscript |-> Empty],
      [error |-> FALSE, success |-> TRUE,  hasData |-> TRUE,  formattedTranscript |-> NA],
      [error |-> FALSE, success |-> TRUE,  hasData |-> TRUE,  formattedTranscript |-> Labeled(t)] }

\* ------------------------------------------------------------- the record
\* the fields handleRecordingComplete passes through mergeValue
MergedFields ==
    {"patientName", "age", "gender", "symptoms", "medicalHistory", "diagnosis",
     "treatmentPlan", "bloodPressure", "heartRate", "temperature",
     "respiratoryRate", "oxygenSaturation", "weight", "height"}

\* PatientData; createdAt, a timestamp that no handler modelled here reads,
\* is left out
PatientFields == MergedFields \cup {"id", "transcript", "formattedTranscript"}

\* the fields of the analyzer's data object
ExtractFields == MergedFields \cup {"formattedTranscript"}

\* useState<PatientData>({ id: '', patientName: '', ... }); a missing
\* formattedTranscript reads as ''
EmptyPatient == [f \in PatientFields |-> Empty]

\* a property the data object does not have (undefined)
Absent == <<"undefined">>

\* JavaScript truthiness of a string or undefined
Truthy(v) == v # Empty /\ v # Absent

\* mergeValue concatenating instead of replacing
mergeValueAppend(currentVal, newVal) ==
    IF Truthy(newVal) /\ newVal # NA THEN currentVal \o newVal ELSE currentVal

\* const mergeValue = (currentVal, newVal) => ...
mergeValue(currentVal, newVal) ==
    IF Truthy(newVal) /\ newVal # NA THEN newVal ELSE currentVal

\* the updatedPatient of handleRecordingComplete: { ...currentPatient } of the
\* render that got the final transcript, transcript and formattedTranscript
\* assigned, every other data field through mergeValue
UpdatedPatient(snapshot, extractedInfo, finalTranscript) ==
    [f \in PatientFields |->
        IF f = "transcript" THEN finalTranscript
        ELSE IF f = "formattedTranscript"
             THEN (IF Truthy(extractedInfo[f]) THEN extractedInfo[f] ELSE Empty)
        ELSE IF f \in MergedFields THEN mergeValue(snapshot[f], extractedInfo[f])
        ELSE snapshot[f]]

\* the fallback of handleRecordingComplete dropping the rest of the record
TranscriptOnlyReset(prev, finalTranscript) ==
    [EmptyPatient EXCEPT !["transcript"] = finalTranscript]

\* the fallback of handleRecordingComplete: prev => ({ ...prev, transcript })
TranscriptOnly(prev, finalTranscript) ==
    [prev EXCEPT !["transcript"] = finalTranscript]

\* data objects the analyzer returns for a transcript: the "N/A" answer of
\* the prompt's example, the same with "N/A" for the labeled transcript too,
\* a partial one (diagnosis only, the other properties missing), a full one
Extractions(t) ==
    { [f \in ExtractFields |-> IF f = "formattedTranscript" THEN Empty ELSE NA],
      [f \in ExtractFields |-> NA],
      [f \in ExtractFields |-> IF f = "diagnosis" THEN <<"d">> ELSE Absent],
      [f \in ExtractFields |->
          IF f = "formattedTranscript" THEN Labeled(t) ELSE <<"v">>] }

\* supabase.functions.invoke('analyze-transcript') outcomes as seen by
\* handleRecordingComplete
StopResponses(t) ==
    { [error |-> TRUE,  success |-> FALSE, hasData |-> FALSE, data |-> Absent],
      [error |-> FALSE, success |-> FALSE, hasData |-> FALSE, data |-> Absent],
      [error |-> FALSE, success |-> TRUE,  hasData |-> FALSE, data |-> Absent] }
    \cup { [error |-> FALSE, success |-> TRUE, hasData |-> TRUE, data |-> e] :
             e \in Extractions(t) }

\* `if (error) throw`, and the else branch of `if (data?.success && data?.data)`
Failed(resp) == resp.error \/ ~resp.success \/ ~resp.hasData

\* the data object of a pause-time response: handleTranscriptAnalysis returns
\* data.data whole, the structured fields as well as the labeled transcript
PauseExtraction(resp) ==
    [f \in ExtractFields |->
        IF f = "formattedTranscript" THEN resp.formattedTranscript ELSE <<"v">>]

\* the rows of the patients table when the page is opened, which loadPatients
\* has put in savedNotes
SavedNotes ==
    { [f \in PatientFields |->
          CASE f = "id" -> <<"1">>
            [] f = "patientName" -> <<"J">>
            [] f = "transcript" -> <<"h", ".">>
            [] f = "formattedTranscript" -> Labeled(<<"h", ".">>)
            [] OTHER -> Empty] }

\* what the user types into a form field
FormEdits ==
    {[field |-> "patientName", value |-> <<"K">>],
     [field |-> "patientName", value |-> <<Space>>]}

\* ------------------------------------------------------------- transcriptParser
\* a string literal as text
Chars(str) == [i \in 1..Len(str) |-> SubSeq(str, i, i)]

UpperCase == Chars("ABCDEFGHIJKLMNOPQRSTUVWXYZ")
LowerCase == Chars("abcdefghijklmnopqrstuvwxyz")
Digits == Chars("0123456789")

Min(S) == CHOOSE x \in S : \A y \in S : x <= y

\* toLowerCase, and the i flag of the patterns
Lower(c) ==
    IF \E k \in 1..Len(UpperCase) : UpperCase[k] = c
    THEN LowerCase[CHOOSE k \in 1..Len(UpperCase) : UpperCase[k] = c]
    ELSE c

IsLetter(c) == \E k \in 1..Len(LowerCase) : LowerCase[k] = Lower(c)
IsDigit(c) == \E k \in 1..Len(Digits) : Digits[k] = c
IsSpace(c) == c = Space

\* the literal lit (lower case) matches s at position i, whatever the case
LitAt(s, i, lit) ==
    /\ i >= 1
    /\ i + Len(lit) - 1 <= Len(s)
    /\ \A k \in 1..Len(lit) : Lower(s[i + k - 1]) = lit[k]

\* String.prototype.includes on the lower-cased text
Includes(s, keyword) == \E i \in 1..Len(s) : LitAt(s, i, keyword)

\* the position after the longest run of letters / spaces starting at i
LettersEnd(s, i) ==
    Min({j \in i..(Len(s) + 1) : j = Len(s) + 1 \/ ~IsLetter(s[j])})

SpacesEnd(s, i) ==
    Min({j \in i..(Len(s) + 1) : j = Len(s) + 1 \/ ~IsSpace(s[j])})

\* \d{1,3}: at most three digits
DigitsEnd(s, i) ==
    Min({j \in i..(i + 3) : j > Len(s) \/ j = i + 3 \/ ~IsDigit(s[j])})

\* (?:\s+[a-z]+)* from position i: the position after the last word taken
RECURSIVE MoreWords(_, _)
MoreWords(s, i) ==
    IF SpacesEnd(s, i) > i /\ LettersEnd(s, SpacesEnd(s, i)) > SpacesEnd(s, i)
    THEN MoreWords(s, LettersEnd(s, SpacesEnd(s, i)))
    ELSE i

\* \s+([a-z]+(?:\s+[a-z]+)*) from position i: the position after the match,
\* 0 when it does not match
WordsEnd(s, i) ==
    IF i <= Len(s) /\ SpacesEnd(s, i) > i
       /\ LettersEnd(s, SpacesEnd(s, i)) > SpacesEnd(s, i)
    THEN MoreWords(s, LettersEnd(s, SpacesEnd(s, i)))
    ELSE 0

\* the alternatives that open the two name patterns, in the order the engine
\* tries them ("called?" is "called", then "calle")
NameOpeners ==
    << << Chars("patient"), Chars("my name is"), Chars("i'm"), Chars("i am"),
          Chars("this is") >>,
       << Chars("name"), Chars("called"), Chars("calle") >> >>

\* the alternatives that open the first age pattern
AgeOpeners == << Chars("i'm"), Chars("i am"), Chars("age"), Chars("years old") >>

\* (?:years old|year old|years|year)
AgeUnits == << Chars("years old"), Chars("year old"), Chars("years"), Chars("year") >>

\* the position after the unit that matches at i, 0 when none does
UnitEnd(s, i) ==
    IF \E k \in 1..Len(AgeUnits) : LitAt(s, i, AgeUnits[k])
    THEN i + Len(AgeUnits[Min({k \in 1..Len(AgeUnits) : LitAt(s, i, AgeUnits[k])})])
    ELSE 0

\* one name pattern at position i: the position after the match, 0 for none
NameEnd(s, i, openers) ==
    IF \E k \in 1..Len(openers) :
          LitAt(s, i, openers[k]) /\ WordsEnd(s, i + Len(openers[k])) # 0
    THEN WordsEnd(s, i + Len(openers[
             Min({k \in 1..Len(openers) :
                    LitAt(s, i, openers[k])
                    /\ WordsEnd(s, i + Len(openers[k])) # 0})]))
    ELSE 0

\* \s*(\d{1,3})\s*(unit)? from position i (after the opener)
NumberEnd(s, i) ==
    IF DigitsEnd(s, SpacesEnd(s, i)) > SpacesEnd(s, i)
    THEN IF UnitEnd(s, SpacesEnd(s, DigitsEnd(s, SpacesEnd(s, i)))) # 0
         THEN UnitEnd(s, SpacesEnd(s, DigitsEnd(s, SpacesEnd(s, i))))
         ELSE SpacesEnd(s, DigitsEnd(s, SpacesEnd(s, i)))
    ELSE 0

\* the first age pattern at position i
AgeEnd1(s, i) ==
    IF \E k \in 1..Len(AgeOpeners) :
          LitAt(s, i, AgeOpeners[k]) /\ NumberEnd(s, i + Len(AgeOpeners[k])) # 0
    THEN NumberEnd(s, i + Len(AgeOpeners[
             Min({k \in 1..Len(AgeOpeners) :
                    LitAt(s, i, AgeOpeners[k])
                    /\ NumberEnd(s, i + Len(AgeOpeners[k])) # 0})]))
    ELSE 0

\* the second age pattern at position i: (\d{1,3})\s*(unit)
AgeEnd2(s, i) ==
    IF i <= Len(s) /\ DigitsEnd(s, i) > i
    THEN UnitEnd(s, SpacesEnd(s, DigitsEnd(s, i)))
    ELSE 0

PatternEnd(pattern, s, i) ==
    CASE pattern = "name1" -> NameEnd(s, i, NameOpeners[1])
      [] pattern = "name2" -> NameEnd(s, i, NameOpeners[2])
      [] pattern = "age1" -> AgeEnd1(s, i)
      [] pattern = "age2" -> AgeEnd2(s, i)

\* transcript.match(pattern) for a pattern with the g flag: every complete
\* match from position i on, left to right (<<>> for null)
RECURSIVE MatchAll(_, _, _)
MatchAll(pattern, s, i) ==
    IF i > Len(s) THEN <<>>
    ELSE IF PatternEnd(pattern, s, i) = 0 THEN MatchAll(pattern, s, i + 1)
    ELSE <<SubSeq(s, i, PatternEnd(pattern, s, i) - 1)>>
         \o MatchAll(pattern, s, PatternEnd(pattern, s, i))

\* `match && match[1]`: the element at index 1 of the array of matches
SecondMatch(pattern, s) ==
    IF Len(MatchAll(pattern, s, 1)) >= 2 THEN MatchAll(pattern, s, 1)[2] ELSE Absent

\* the name a pattern gives: name.length > 1 && name.length < 50
NameOf(pattern, s) ==
    IF SecondMatch(pattern, s) # Absent
       /\ Len(Trim(SecondMatch(pattern, s))) > 1
       /\ Len(Trim(SecondMatch(pattern, s))) < 50
    THEN Trim(SecondMatch(pattern, s))
    ELSE Absent

\* parseInt: the leading digits (after white space) as a number, -1 for NaN
RECURSIVE DigitsValue(_, _)
DigitsValue(s, acc) ==
    IF s = Empty \/ ~IsDigit(Head(s)) THEN acc
    ELSE DigitsValue(Tail(s),
                     10 * acc + (CHOOSE k \in 1..10 : Digits[k] = Head(s)) - 1)

ParseInt(s) ==
    IF TrimLeft(s) # Empty /\ IsDigit(Head(TrimLeft(s)))
    THEN DigitsValue(TrimLeft(s), 0)
    ELSE -1

\* Number.prototype.toString of a natural number
RECURSIVE NumberToString(_)
NumberToString(n) ==
    IF n < 10 THEN <<Digits[n + 1]>>
    ELSE NumberToString(n \div 10) \o <<Digits[(n % 10) + 1]>>

\* the age a pattern gives: age > 0 && age < 150
AgeOf(pattern, s) ==
    IF SecondMatch(pattern, s) # Absent
       /\ ParseInt(SecondMatch(pattern, s)) > 0
       /\ ParseInt(SecondMatch(pattern, s)) < 150
    THEN NumberToString(ParseInt(SecondMatch(pattern, s)))
    ELSE Absent

IsTerminator(c) == c \in {".", "!", "?"}

\* transcript.split(/[.!?]+/)
RECURSIVE Split(_)
Split(s) ==
    IF \E i \in 1..Len(s) : IsTerminator(s[i])
    THEN LET first == Min({i \in 1..Len(s) : IsTerminator(s[i])})
             rest == Min({j \in first..(Len(s) + 1) :
                            j = Len(s) + 1 \/ ~IsTerminator(s[j])})
         IN <<SubSeq(s, 1, first - 1)>> \o Split(SubSeq(s, rest, Len(s)))
    ELSE <<s>>

symptomKeywords ==
    << Chars("pain"), Chars("hurt"), Chars("ache"), Chars("sore"),
       Chars("headache"), Chars("fever"), Chars("cough"), Chars("cold"),
       Chars("flu"), Chars("nausea"), Chars("vomiting"), Chars("diarrhea"),
       Chars("constipation"), Chars("bleeding"), Chars("swelling"),
       Chars("rash"), Chars("itching"), Chars("burning"), Chars("numbness"),
       Chars("tingling"), Chars("weakness"), Chars("fatigue"), Chars("dizzy"),
       Chars("shortness of breath"), Chars("chest pain"), Chars("back pain"),
       Chars("stomach pain"), Chars("sinus"), Chars("congestion"),
       Chars("runny nose"), Chars("sneezing"), Chars("allergies") >>

historyKeywords ==
    << Chars("history"), Chars("previous"), Chars("before"), Chars("surgery"),
       Chars("operation"), Chars("medication"), Chars("allergic"),
       Chars("allergy"), Chars("diabetes"), Chars("hypertension"),
       Chars("blood pressure"), Chars("heart"), Chars("cancer"),
       Chars("family history"), Chars("genetic"), Chars("chronic"),
       Chars("condition") >>

diagnosisKeywords ==
    << Chars("diagnosis"), Chars("diagnosed"), Chars("condition"),
       Chars("syndrome"), Chars("disease"), Chars("infection"),
       Chars("inflammation"), Chars("disorder"), Chars("pneumonia"),
       Chars("bronchitis"), Chars("arthritis"), Chars("migraine"),
       Chars("anxiety"), Chars("depression"), Chars("strain"), Chars("sprain") >>

treatmentKeywords ==
    << Chars("treatment"), Chars("medication"), Chars("prescription"),
       Chars("take"), Chars("rest"), Chars("follow up"), Chars("therapy"),
       Chars("exercise"), Chars("diet"), Chars("avoid"), Chars("recommend"),
       Chars("suggest"), Chars("antibiotics"), Chars("pain relief"),
       Chars("ibuprofen"), Chars("acetaminophen"), Chars("aspirin") >>

\* keywords.some(keyword => lowerSentence.includes(keyword))
HasKeyword(sentence, keywords) ==
    \E k \in 1..Len(keywords) : Includes(sentence, keywords[k])

\* the trimmed sentences that contain a keyword, in order
RECURSIVE KeywordSentences(_, _)
KeywordSentences(sentences, keywords) ==
    IF sentences = <<>> THEN <<>>
    ELSE (IF HasKeyword(Head(sentences), keywords)
          THEN <<Trim(Head(sentences))>> ELSE <<>>)
         \o KeywordSentences(Tail(sentences), keywords)

\* Array.prototype.join('. ')
RECURSIVE Join(_)
Join(parts) ==
    IF parts = <<>> THEN Empty
    ELSE IF Len(parts) = 1 THEN parts[1]
    ELSE parts[1] \o Chars(". ") \o Join(Tail(parts))

\* `if (sentences.length > 0) parsed.field = sentences.join('. ').trim()`
SentencesField(s, keywords) ==
    IF KeywordSentences(Split(s), keywords) # <<>>
    THEN Trim(Join(KeywordSentences(Split(s), keywords)))
    ELSE Absent

\* the gender heuristic on the lower-cased transcript
GenderOf(s) ==
    IF Includes(s, Chars("female")) \/ Includes(s, Chars("woman"))
       \/ Includes(s, Chars("she/her"))
    THEN Chars("Female")
    ELSE IF Includes(s, Chars("male")) \/ Includes(s, Chars("man"))
            \/ Includes(s, Chars("he/him"))
    THEN Chars("Male")
    ELSE Absent

\* the fields of ParsedPatientInfo
ParsedFields ==
    {"patientName", "age", "gender", "symptoms", "medicalHistory", "diagnosis",
     "treatmentPlan"}

\* const parsed: ParsedPatientInfo = {}
NothingParsed == [f \in ParsedFields |-> Absent]

\* parseTranscriptForPatientInfo: for name and age the first pattern that
\* gives an accepted value
parseTranscriptForPatientInfo(s) ==
    [f \in ParsedFields |->
        CASE f = "patientName" ->
               IF NameOf("name1", s) # Absent THEN NameOf("name1", s)
               ELSE NameOf("name2", s)
          [] f = "age" ->
               IF AgeOf("age1", s) # Absent THEN AgeOf("age1", s)
               ELSE AgeOf("age2", s)
          [] f = "gender" -> GenderOf(s)
          [] f = "symptoms" -> SentencesField(s, symptomKeywords)
          [] f = "medicalHistory" -> SentencesField(s, historyKeywords)
          [] f = "diagnosis" -> SentencesField(s, diagnosisKeywords)
          [] f = "treatmentPlan" -> SentencesField(s, treatmentKeywords)]

\* mergePatientData letting the parsed value win
mergePatientDataOverwrite(e, p) ==
    [f \in PatientFields |->
        IF f \in ParsedFields
        THEN (IF Truthy(p[f]) THEN p[f] ELSE e[f])
        ELSE e[f]]

\* mergePatientData: existing.f || parsed.f || existing.f for the parsed
\* fields, { ...existing } for the rest
mergePatientData(e, p) ==
    [f \in PatientFields |->
        IF f \in ParsedFields
        THEN (IF Truthy(e[f]) THEN e[f] ELSE IF Truthy(p[f]) THEN p[f] ELSE e[f])
        ELSE e[f]]

\* transcripts given to the parser
ParserTexts ==
    { Empty,
      Chars("I am John Smith, 34 years old. I have a bad headache and fever."),
      Chars("My name is Bob. I am Al, 40 years old, age 41 years."),
      Chars("I am 34. I am 35 years old"),
      Chars("Patient reports pain! She was diagnosed with diabetes."),
      Chars("The man called Al Roe is 7 years old? This is Al Roe. Take rest.") }

\* records given to mergePatientData: some of name, age and symptoms filled
\* in, with vitals, an identifier and a transcript
ParserRecords ==
    { [f \in PatientFields |->
          IF f \in filled THEN <<"x">>
          ELSE IF f \in ParsedFields THEN Empty
          ELSE <<"9">>] :
        filled \in SUBSET {"patientName", "age", "symptoms"} }

\* ------------------------------------------------------------- helpers
isIdle == recordingState = "idle"
isRecording == recordingState = "recording"
isPaused == recordingState = "paused"

Live(s) == streams[s].status \in {"starting", "active"}
LiveStreams == {s \in 1..Len(streams) : Live(s)}

\* SpeechRecognition.stop(): a started stream winds down, anything else is left
StopStream(ss, s) ==
    IF ss[s].status \in {"starting", "active"}
    THEN [ss EXCEPT ![s].status = "stopping"]
    ELSE ss

Init ==
    /\ recordingState = "idle"
    /\ transcript = Empty
    /\ error = ""
    /\ isSupported = TRUE
    /\ recognitionRef = 0
    /\ fullTranscriptRef = Empty
    /\ streams = <<>>
    /\ pendingStarts = <<>>
    /\ restartTimers = <<>>
    /\ analyses = <<>>
    /\ currentTranscript = Empty
    /\ completed = <<>>
    /\ hasSR \in BOOLEAN
    /\ currentPatient = EmptyPatient
    /\ stopAnalyses = <<>>
    /\ toast = ""
    /\ nInputs = 0
    /\ lastEvent = ""
    /\ parserStep = "idle"
    /\ transcriptText = Empty
    /\ parsed = NothingParsed
    /\ existing = EmptyPatient
    /\ merged = EmptyPatient
    /\ store = SavedNotes
    /\ savedNotes = SavedNotes
    /\ saves = <<>>

\* ------------------------------------------------------------- startRecording
\* startRecording showing the unsupported message without setIsSupported(false)
StartRecordingBeginNoFlag(isResume, closure) ==
    IF ~hasSR
    THEN /\ isSupported' = isSupported
         /\ error' = "unsupported"
         /\ pendingStarts' = pendingStarts
    ELSE /\ isSupported' = isSupported
         /\ error' = ""
         /\ pendingStarts' = Append(pendingStarts,
                                    [isResume |-> isResume, closure |-> closure])

\* startRecording up to its await: setError(''), the support check, and the
\* getUserMedia request.  closure is the recordingState of the calling render.
StartRecordingBegin(isResume, closure) ==
    IF ~hasSR
    THEN /\ isSupported' = FALSE
         /\ error' = "unsupported"
         /\ pendingStarts' = pendingStarts
    ELSE /\ isSupported' = isSupported
         /\ error' = ""
         /\ pendingStarts' = Append(pendingStarts,
                                    [isResume |-> isResume, closure |-> closure])

\* the Start button: disabled={!isIdle || !isSupported}
StartDisabled == ~isIdle \/ ~isSupported

ClickStart ==
    /\ lastEvent' = ""
    /\ IF StartDisabled
       THEN UNCHANGED <<isSupported, error, pendingStarts, nInputs>>
       ELSE /\ nInputs < MaxInputs
            /\ nInputs' = nInputs + 1
            /\ StartRecordingBegin(FALSE, recordingState)
    /\ UNCHANGED <<recordingState, transcript, recognitionRef, fullTranscriptRef,
                   streams, restartTimers, analyses, currentTranscript,
                   completed, hasSR, pageVars, parserVars, storeVars>>

\* requestMicrophonePermission rejects: setError, startRecording returns
PermissionDenied(i) ==
    /\ i \in 1..Len(pendingStarts)
    /\ nInputs < MaxInputs
    /\ nInputs' = nInputs + 1
    /\ pendingStarts' = RemoveAt(pendingStarts, i)
    /\ error' = "mic-denied"
    /\ lastEvent' = ""
    /\ UNCHANGED <<recordingState, transcript, isSupported, recognitionRef,
                   fullTranscriptRef, streams, restartTimers, analyses,
                   currentTranscript, completed, hasSR, pageVars, parserVars, storeVars>>

\* startRecording resetting the transcript on resume as well
StartTranscriptCleared(isResume) == Empty

\* the value startRecording leaves in fullTranscriptRef after a started stream
StartTranscript(isResume) == IF isResume THEN fullTranscriptRef ELSE Empty

\* startRecording after the await: new SpeechRecognition, recognitionRef.current
\* = recognition, recognition.start() (which may throw), setRecordingState
PermissionGranted(i, throws) ==
    /\ i \in 1..Len(pendingStarts)
    /\ LET p == pendingStarts[i] IN
       /\ pendingStarts' = RemoveAt(pendingStarts, i)
       /\ recognitionRef' = Len(streams) + 1
       /\ lastEvent' = ""
       /\ IF throws
          THEN /\ nInputs < MaxInputs
               /\ nInputs' = nInputs + 1
               /\ streams' = Append(streams, [status |-> "new", closure |-> p.closure])
               /\ error' = "start-failed"
               /\ UNCHANGED <<recordingState, transcript, fullTranscriptRef>>
          ELSE /\ streams' = Append(streams, [status |-> "starting", closure |-> p.closure])
               /\ recordingState' = "recording"
               /\ fullTranscriptRef' = StartTranscript(p.isResume)
               /\ transcript' = IF p.isResume THEN transcript ELSE Empty
               /\ UNCHANGED <<error, nInputs>>
    /\ UNCHANGED <<isSupported, restartTimers, analyses, currentTranscript,
                   completed, hasSR, pageVars, parserVars, storeVars>>

\* ------------------------------------------------------------- stopRecording
\* the Stop and Pause/Resume buttons: disabled={isIdle || !isSupported}
StopDisabled == isIdle \/ ~isSupported

\* the displayed transcript (with interim text) in place of the committed one
FinalTranscriptDisplayed == Trim(transcript)

\* onRecordingComplete(fullTranscriptRef.current.trim())
FinalTranscript == Trim(fullTranscriptRef)

\* the Stop button: stopRecording, and handleRecordingComplete up to its await
\* (setCurrentTranscript(finalTranscript); with a non-empty transcript the
\* "Analyzing transcript" toast and the analyzer request, which keeps the
\* currentPatient of this render)
ClickStop ==
    /\ lastEvent' = ""
    /\ IF StopDisabled
       THEN UNCHANGED <<recordingState, recognitionRef, streams, completed,
                        currentTranscript, stopAnalyses, toast, nInputs>>
       ELSE /\ nInputs < MaxInputs
            /\ nInputs' = nInputs + 1
            /\ streams' = IF recognitionRef # 0
                          THEN StopStream(streams, recognitionRef) ELSE streams
            /\ recognitionRef' = 0
            /\ recordingState' = "idle"
            /\ completed' = Append(completed, FinalTranscript)
            /\ currentTranscript' = FinalTranscript
            /\ IF Trim(FinalTranscript) # Empty
               THEN /\ toast' = "Analyzing transcript"
                    /\ stopAnalyses' = Append(stopAnalyses,
                                              [transcript |-> FinalTranscript,
                                               snapshot |-> currentPatient])
               ELSE UNCHANGED <<stopAnalyses, toast>>
    /\ UNCHANGED <<transcript, error, isSupported, fullTranscriptRef,
                   pendingStarts, restartTimers, analyses, hasSR, currentPatient,
                   parserVars, storeVars>>

recorderVars ==
    <<recordingState, transcript, error, isSupported, recognitionRef,
      fullTranscriptRef, streams, pendingStarts, restartTimers, analyses,
      completed, hasSR>>

\* handleRecordingComplete after its await: the merge and the "Recording
\* complete" toast, or the "Analysis failed" toast and the fallback
RecordingAnalysed(i, resp) ==
    /\ i \in 1..Len(stopAnalyses)
    /\ resp \in StopResponses(stopAnalyses[i].transcript)
    /\ stopAnalyses' = RemoveAt(stopAnalyses, i)
    /\ IF Failed(resp)
       THEN /\ toast' = "Analysis failed"
            /\ currentPatient' = TranscriptOnly(currentPatient,
                                                stopAnalyses[i].transcript)
            /\ lastEvent' = "stopAnalysisFailed"
       ELSE /\ toast' = "Recording complete"
            /\ currentPatient' = UpdatedPatient(stopAnalyses[i].snapshot, resp.data,
                                                stopAnalyses[i].transcript)
            /\ lastEvent' = "stopAnalysisMerged"
    /\ UNCHANGED <<recorderVars, currentTranscript, parserVars, storeVars, nInputs>>

\* ------------------------------------------------------------- the form
\* handlePatientDataChange with PatientForm's { ...patientData, [field]: value }
HandlePatientDataChange(e) ==
    /\ e \in FormEdits
    /\ nInputs < MaxInputs
    /\ nInputs' = nInputs + 1
    /\ currentPatient' = [currentPatient EXCEPT ![e.field] = e.value]
    /\ lastEvent' = ""
    /\ UNCHANGED <<recorderVars, currentTranscript, stopAnalyses, toast, parserVars, storeVars>>

\* handleEditNote / handleEditFromView: a saved note is loaded into the form
HandleEditNote(note) ==
    /\ note \in savedNotes
    /\ nInputs < MaxInputs
    /\ nInputs' = nInputs + 1
    /\ currentPatient' = note
    /\ currentTranscript' = note["transcript"]
    /\ lastEvent' = ""
    /\ UNCHANGED <<recorderVars, stopAnalyses, toast, parserVars, storeVars>>

\* handleNewRecording: the form and the live transcript are reset
HandleNewRecording ==
    /\ nInputs < MaxInputs
    /\ nInputs' = nInputs + 1
    /\ currentPatient' = EmptyPatient
    /\ currentTranscript' = Empty
    /\ lastEvent' = ""
    /\ UNCHANGED <<recorderVars, stopAnalyses, toast, parserVars, storeVars>>

\* ------------------------------------------------------------- saving
\* the insert always chosen
StoreOpInsert(p) == "insert"

\* `if (currentPatient.id)`: update of the row, else insert
StoreOp(p) == IF p["id"] # Empty THEN "update" ELSE "insert"

\* handleSavePatient up to its await: nothing when the name is blank, else one
\* store call with the fields of the currentPatient of this render
SaveRequests(p) ==
    IF Trim(p["patientName"]) = Empty THEN <<>>
    ELSE << [op |-> StoreOp(p), patient |-> p, step |-> "store"] >>

\* the columns sent: formatted_transcript: formattedTranscript || '', the
\* other fields as they are; the id is the row's
Row(p, id) ==
    [f \in PatientFields |->
        IF f = "id" THEN id
        ELSE IF f = "formattedTranscript"
             THEN (IF Truthy(p[f]) THEN p[f] ELSE Empty)
        ELSE p[f]]

\* the id the table gives a new row
NewId(rows) == NumberToString(Cardinality(rows) + 1)

\* the table after .insert(...) or .update(...).eq('id', id)
Applied(rows, save) ==
    IF save.op = "insert"
    THEN rows \cup {Row(save.patient, NewId(rows))}
    ELSE {IF r["id"] = save.patient["id"] THEN Row(save.patient, r["id"]) ELSE r :
            r \in rows}

\* mappedPatients of loadPatients: column || '' for the optional columns
MappedPatients(rows) ==
    {[f \in PatientFields |->
         IF f \in {"id", "patientName"} THEN r[f]
         ELSE IF Truthy(r[f]) THEN r[f] ELSE Empty] : r \in rows}

\* the Save button of the form: handleSavePatient up to its await
HandleSavePatient ==
    /\ IF SaveRequests(currentPatient) = <<>>
       THEN /\ toast' = "Patient name required"
            /\ UNCHANGED <<saves, nInputs>>
       ELSE /\ nInputs < MaxInputs
            /\ nInputs' = nInputs + 1
            /\ saves' = saves \o SaveRequests(currentPatient)
            /\ toast' = toast
    /\ lastEvent' = "save"
    /\ UNCHANGED <<recorderVars, currentTranscript, currentPatient, stopAnalyses,
                   parserVars, store, savedNotes>>

\* handleNewRecordingClick finds unsaved data and opens the dialog
HasUnsavedData ==
    \/ Trim(currentPatient["patientName"]) # Empty
    \/ Trim(currentPatient["symptoms"]) # Empty
    \/ Trim(currentPatient["diagnosis"]) # Empty
    \/ Trim(currentPatient["treatmentPlan"]) # Empty
    \/ Trim(currentTranscript) # Empty

\* "Save & Continue" of that dialog: handleSaveAndNewRecording, which calls
\* handleSavePatient without awaiting it and then handleNewRecording
HandleSaveAndNewRecording ==
    /\ HasUnsavedData
    /\ nInputs < MaxInputs
    /\ nInputs' = nInputs + 1
    /\ saves' = saves \o SaveRequests(currentPatient)
    /\ currentPatient' = EmptyPatient
    /\ currentTranscript' = Empty
    /\ lastEvent' = "saveAndNew"
    /\ UNCHANGED <<recorderVars, stopAnalyses, toast, parserVars, store, savedNotes>>

\* handleSavePatient after the store call: `if (error) throw error` into the
\* catch, else the toast and on to loadPatients
StoreResolved(i, ok) ==
    /\ i \in 1..Len(saves)
    /\ saves[i].step = "store"
    /\ IF ok
       THEN /\ store' = Applied(store, saves[i])
            /\ toast' = IF saves[i].op = "update"
                        THEN "Patient information updated"
                        ELSE "Patient information saved"
            /\ saves' = [saves EXCEPT ![i].step = "reload"]
            /\ nInputs' = nInputs
       ELSE /\ nInputs < MaxInputs
            /\ nInputs' = nInputs + 1
            /\ toast' = "Error saving patient"
            /\ saves' = RemoveAt(saves, i)
            /\ store' = store
    /\ lastEvent' = ""
    /\ UNCHANGED <<recorderVars, currentTranscript, currentPatient, stopAnalyses,
                   parserVars, savedNotes>>

\* handleSavePatient after `await loadPatients()` (which sets savedNotes, or
\* shows its own toast on an error): the form and the live transcript are reset
PatientsReloaded(i, ok) ==
    /\ i \in 1..Len(saves)
    /\ saves[i].step = "reload"
    /\ saves' = RemoveAt(saves, i)
    /\ savedNotes' = IF ok THEN MappedPatients(store) ELSE savedNotes
    /\ toast' = IF ok THEN toast ELSE "Error loading patients"
    /\ currentPatient' = EmptyPatient
    /\ currentTranscript' = Empty
    /\ lastEvent' = ""
    /\ UNCHANGED <<recorderVars, stopAnalyses, parserVars, store, nInputs>>

\* ------------------------------------------------------------- pause / resume
\* pauseRecording without its setRecordingState
PauseStateKept == recordingState

\* pauseRecording up to its await: setRecordingState('paused')
PauseState == "paused"

\* pauseRecording sending the untrimmed text, empty or not
PauseRequestsUntrimmed == <<fullTranscriptRef>>

\* the onTranscriptAnalysis calls of one pauseRecording:
\* `if (currentTranscript && onTranscriptAnalysis)` with the trimmed text
PauseRequests ==
    IF Trim(fullTranscriptRef) # Empty THEN <<Trim(fullTranscriptRef)>> ELSE <<>>

Pause ==
    /\ lastEvent' = ""
    /\ IF StopDisabled \/ ~isRecording
       THEN UNCHANGED <<recordingState, streams, analyses, nInputs>>
       ELSE /\ nInputs < MaxInputs
            /\ nInputs' = nInputs + 1
            /\ streams' = IF recognitionRef # 0
                          THEN StopStream(streams, recognitionRef) ELSE streams
            /\ recordingState' = PauseState
            /\ analyses' = analyses \o PauseRequests
    /\ UNCHANGED <<transcript, error, isSupported, recognitionRef,
                   fullTranscriptRef, pendingStarts, restartTimers,
                   currentTranscript, completed, hasSR, pageVars, parserVars, storeVars>>

\* handleTranscriptAnalysis without its error / success checks
HandleTranscriptAnalysisNoCheck(resp) ==
    [formattedTranscript |-> resp.formattedTranscript]

\* handleTranscriptAnalysis: data.data when success and data, else null
\* (null is modelled as the record with no formattedTranscript)
NullResult == [formattedTranscript |-> Empty]

HandleTranscriptAnalysis(resp) ==
    IF ~resp.error /\ resp.success /\ resp.hasData
    THEN [formattedTranscript |-> resp.formattedTranscript]
    ELSE NullResult

\* analysisResult?.formattedTranscript is truthy
Rewrites(resp) == HandleTranscriptAnalysis(resp).formattedTranscript # Empty

\* the rewrite without its onTranscriptUpdate call
AnalysisWritesNoUpdate(i, resp) ==
    [full    |-> IF resp.formattedTranscript # Empty /\ ~Failed(resp)
                 THEN resp.formattedTranscript ELSE fullTranscriptRef,
     display |-> IF resp.formattedTranscript # Empty /\ ~Failed(resp)
                 THEN resp.formattedTranscript ELSE transcript,
     live    |-> currentTranscript]

\* the rewrite applied only when nothing was committed since the request
AnalysisWritesIfFresh(i, resp) ==
    IF resp.formattedTranscript # Empty /\ ~Failed(resp)
       /\ Trim(fullTranscriptRef) = analyses[i]
    THEN [full    |-> resp.formattedTranscript,
          display |-> resp.formattedTranscript,
          live    |-> resp.formattedTranscript]
    ELSE [full |-> fullTranscriptRef, display |-> transcript,
          live |-> currentTranscript]

\* pauseRecording after its await: what it leaves in fullTranscriptRef, in the
\* display (setTranscript) and in the consumer (onTranscriptUpdate)
AnalysisWrites(i, resp) ==
    IF Rewrites(resp)
    THEN [full    |-> HandleTranscriptAnalysis(resp).formattedTranscript,
          display |-> HandleTranscriptAnalysis(resp).formattedTranscript,
          live    |-> HandleTranscriptAnalysis(resp).formattedTranscript]
    ELSE [full |-> fullTranscriptRef, display |-> transcript,
          live |-> currentTranscript]

AnalysisComplete(i, resp) ==
    /\ i \in 1..Len(analyses)
    /\ resp \in Responses(analyses[i])
    /\ analyses' = RemoveAt(analyses, i)
    /\ lastEvent' = IF Failed(resp) THEN "analysisFailed"
                    ELSE IF resp.formattedTranscript = Empty THEN "analysisKept"
                    ELSE IF Trim(fullTranscriptRef) = analyses[i]
                         THEN "analysisRewrote"
                    ELSE IF transcript = Trim(fullTranscriptRef)
                         THEN "analysisOverwrote" ELSE "analysisOverwroteLive"
    /\ fullTranscriptRef' = AnalysisWrites(i, resp).full
    /\ transcript' = AnalysisWrites(i, resp).display
    /\ currentTranscript' = AnalysisWrites(i, resp).live
    /\ UNCHANGED <<recordingState, error, isSupported, recognitionRef, streams,
                   pendingStarts, restartTimers, completed, hasSR, pageVars, parserVars, storeVars, nInputs>>

\* resumeRecording: setRecordingState('recording'), then startRecording(true)
Resume ==
    /\ lastEvent' = ""
    /\ IF StopDisabled \/ ~isPaused
       THEN UNCHANGED <<recordingState, isSupported, error, pendingStarts, nInputs>>
       ELSE /\ nInputs < MaxInputs
            /\ nInputs' = nInputs + 1
            /\ recordingState' = "recording"
            /\ StartRecordingBegin(TRUE, recordingState)
    /\ UNCHANGED <<transcript, recognitionRef, fullTranscriptRef, streams,
                   restartTimers, analyses, currentTranscript, completed,
                   hasSR, pageVars, parserVars, storeVars>>

\* ------------------------------------------------------------- stream events
\* recognition.onstart
OnStart(s) ==
    /\ s \in 1..Len(streams)
    /\ streams[s].status = "starting"
    /\ streams' = [streams EXCEPT ![s].status = "active"]
    /\ error' = ""
    /\ lastEvent' = ""
    /\ UNCHANGED <<recordingState, transcript, isSupported, recognitionRef,
                   fullTranscriptRef, pendingStarts, restartTimers, analyses,
                   currentTranscript, completed, hasSR, pageVars, parserVars, storeVars, nInputs>>

\* the loop of onresult: the final segments, each followed by one space
RECURSIVE Finals(_)
Finals(ev) ==
    IF ev = <<>> THEN Empty
    ELSE (IF Head(ev).isFinal THEN Head(ev).text \o <<Space>> ELSE Empty)
         \o Finals(Tail(ev))

RECURSIVE Interims(_)
Interims(ev) ==
    IF ev = <<>> THEN Empty
    ELSE (IF Head(ev).isFinal THEN Empty ELSE Head(ev).text)
         \o Interims(Tail(ev))

\* recognition.onresult; a stream that was told to stop can still deliver the
\* final result of the audio it had captured
OnResult(s, ev) ==
    /\ s \in 1..Len(streams)
    /\ ev \in ResultEvents
    /\ nInputs < MaxInputs
    /\ \/ streams[s].status = "active"
       \/ streams[s].status = "stopping" /\ AllFinal(ev)
    /\ nInputs' = nInputs + 1
    /\ fullTranscriptRef' = fullTranscriptRef \o Finals(ev)
    /\ transcript' = Trim(fullTranscriptRef \o Finals(ev) \o Interims(ev))
    /\ currentTranscript' = Trim(fullTranscriptRef \o Finals(ev) \o Interims(ev))
    /\ lastEvent' = ""
    /\ UNCHANGED <<recordingState, error, isSupported, recognitionRef, streams,
                   pendingStarts, restartTimers, analyses, completed, hasSR, pageVars, parserVars, storeVars>>

\* onerror swallowing "no-speech" without a message
ErrorMessageSilent(kind) ==
    CASE kind = "no-speech" -> ""
      [] kind = "audio-capture" -> "no-microphone"
      [] kind = "not-allowed" -> "mic-denied-2"
      [] kind = "network" -> "network-error"
      [] OTHER -> "recognition-error"

\* the switch of onerror
ErrorMessage(kind) ==
    CASE kind = "no-speech" -> "no-speech-detected"
      [] kind = "audio-capture" -> "no-microphone"
      [] kind = "not-allowed" -> "mic-denied-2"
      [] kind = "network" -> "network-error"
      [] OTHER -> "recognition-error"

\* recognition.onerror; the end event follows
OnError(s, kind) ==
    /\ s \in 1..Len(streams)
    /\ kind \in ErrorKinds
    /\ streams[s].status \in {"starting", "active", "stopping"}
    /\ nInputs < MaxInputs
    /\ nInputs' = nInputs + 1
    /\ streams' = [streams EXCEPT ![s].status = "errored"]
    /\ error' = ErrorMessage(kind)
    /\ recordingState' = "idle"
    /\ lastEvent' = ""
    /\ UNCHANGED <<transcript, isSupported, recognitionRef, fullTranscriptRef,
                   pendingStarts, restartTimers, analyses, currentTranscript,
                   completed, hasSR, pageVars, parserVars, storeVars>>

\* recognition.onend: `if (recordingState === 'recording') setTimeout(...)`,
\* recordingState being the const of the render that called startRecording
\* onend scheduling a restart whatever the state
OnEndSchedulesAlways(s) == s \in 1..Len(streams)

OnEndSchedules(s) == streams[s].closure = "recording"

OnEnd(s) ==
    /\ s \in 1..Len(streams)
    /\ streams[s].status \in {"active", "stopping", "errored"}
    /\ streams' = [streams EXCEPT ![s].status = "ended"]
    /\ restartTimers' = IF OnEndSchedules(s)
                        THEN Append(restartTimers, s) ELSE restartTimers
    /\ lastEvent' = IF streams[s].status = "active" THEN "onendOwn" ELSE "onend"
    /\ UNCHANGED <<recordingState, transcript, error, isSupported, recognitionRef,
                   fullTranscriptRef, pendingStarts, analyses, currentTranscript,
                   completed, hasSR, pageVars, parserVars, storeVars, nInputs>>

\* the setTimeout callback of onend: recognitionRef.current.start() when the
\* ref is set and the same closed-over recordingState is 'recording'; start()
\* on a stream that is already started throws and is caught
RestartTimer(i) ==
    /\ i \in 1..Len(restartTimers)
    /\ restartTimers' = RemoveAt(restartTimers, i)
    /\ streams' = IF /\ recognitionRef # 0
                     /\ streams[restartTimers[i]].closure = "recording"
                     /\ streams[recognitionRef].status \in {"new", "ended"}
                  THEN [streams EXCEPT ![recognitionRef].status = "starting"]
                  ELSE streams
    /\ lastEvent' = ""
    /\ UNCHANGED <<recordingState, transcript, error, isSupported, recognitionRef,
                   fullTranscriptRef, pendingStarts, analyses, currentTranscript,
                   completed, hasSR, pageVars, parserVars, storeVars, nInputs>>

\* ------------------------------------------------------------- specification
Next ==
    \/ ClickStart
    \/ \E i \in 1..Len(pendingStarts) : PermissionDenied(i)
    \/ \E i \in 1..Len(pendingStarts), throws \in BOOLEAN : PermissionGranted(i, throws)
    \/ ClickStop
    \/ Pause
    \/ Resume
    \/ \E i \in 1..Len(analyses) : \E resp \in Responses(analyses[i]) :
          AnalysisComplete(i, resp)
    \/ \E s \in 1..Len(streams) : OnStart(s)
    \/ \E s \in 1..Len(streams), ev \in ResultEvents : OnResult(s, ev)
    \/ \E s \in 1..Len(streams), kind \in ErrorKinds : OnError(s, kind)
    \/ \E s \in 1..Len(streams) : OnEnd(s)
    \/ \E i \in 1..Len(stopAnalyses) :
          \E resp \in StopResponses(stopAnalyses[i].transcript) :
             RecordingAnalysed(i, resp)

\* the recorder and its consumer callbacks, the form left alone
Spec == Init /\ [][Next]_vars

\* the same with the user working on the form
NextPage ==
    \/ Next
    \/ \E e \in FormEdits : HandlePatientDataChange(e)
    \/ \E note \in savedNotes : HandleEditNote(note)
    \/ HandleNewRecording

SpecPage == Init /\ [][NextPage]_vars

\* the form and the patients table, the recorder left alone
NextSave ==
    \/ \E e \in FormEdits : HandlePatientDataChange(e)
    \/ \E note \in savedNotes : HandleEditNote(note)
    \/ HandleNewRecording
    \/ HandleSavePatient
    \/ HandleSaveAndNewRecording
    \/ \E i \in 1..Len(saves), ok \in BOOLEAN : StoreResolved(i, ok)
    \/ \E i \in 1..Len(saves), ok \in BOOLEAN : PatientsReloaded(i, ok)

SpecSave == Init /\ [][NextSave]_vars

\* ------------------------------------------------------------- the parser
\* a caller of transcriptParser with a transcript and a record at hand
InitParser ==
    /\ recordingState = "idle"
    /\ transcript = Empty
    /\ error = ""
    /\ isSupported = TRUE
    /\ recognitionRef = 0
    /\ fullTranscriptRef = Empty
    /\ streams = <<>>
    /\ pendingStarts = <<>>
    /\ restartTimers = <<>>
    /\ analyses = <<>>
    /\ currentTranscript = Empty
    /\ completed = <<>>
    /\ hasSR = TRUE
    /\ currentPatient = EmptyPatient
    /\ stopAnalyses = <<>>
    /\ toast = ""
    /\ nInputs = 0
    /\ lastEvent = ""
    /\ parserStep = "input"
    /\ transcriptText \in ParserTexts
    /\ parsed = NothingParsed
    /\ existing \in ParserRecords
    /\ merged = existing
    /\ store = SavedNotes
    /\ savedNotes = SavedNotes
    /\ saves = <<>>

\* const parsed = parseTranscriptForPatientInfo(transcript)
ParseTranscript ==
    /\ parserStep = "input"
    /\ parserStep' = "parsed"
    /\ parsed' = parseTranscriptForPatientInfo(transcriptText)
    /\ UNCHANGED <<recorderVars, currentTranscript, pageVars, storeVars, nInputs, lastEvent,
                   transcriptText, existing, merged>>

\* mergePatientData(existing, parsed)
MergeParsed ==
    /\ parserStep = "parsed"
    /\ parserStep' = "merged"
    /\ merged' = mergePatientData(existing, parsed)
    /\ UNCHANGED <<recorderVars, currentTranscript, pageVars, storeVars, nInputs, lastEvent,
                   transcriptText, existing, parsed>>

NextParser == ParseTranscript \/ MergeParsed

SpecParser == InitParser /\ [][NextParser]_vars

\* No restart is ever scheduled: a stream's closure holds the recordingState of
\* the render that called startRecording, 'idle' (Start) or 'paused' (Resume).
\* RestartTimer is therefore never enabled and adds no behaviour to Next.
RestartNeverScheduled ==
    /\ restartTimers = <<>>
    /\ \A s \in 1..Len(streams) : streams[s].closure \in {"idle", "paused"}
    /\ ~ENABLED (\E i \in 1..Len(restartTimers) : RestartTimer(i))

\* ------------------------------------------------------------- claims
Last(q) == q[Len(q)]

\* a start() continuation (fresh, not resume) that started its stream
FreshStartStep ==
    \E i \in 1..Len(pendingStarts) :
        PermissionGranted(i, FALSE) /\ ~pendingStarts[i].isResume

ResumeStartStep ==
    \E i \in 1..Len(pendingStarts) :
        PermissionGranted(i, FALSE) /\ pendingStarts[i].isResume

GrantStep ==
    \E i \in 1..Len(pendingStarts), throws \in BOOLEAN : PermissionGranted(i, throws)

SessionUnchanged ==
    UNCHANGED <<recordingState, fullTranscriptRef, streams, pendingStarts,
                recognitionRef, completed, analyses>>

\* C1: every change of RecordingState made by start, pause, resume or stop is
\* the one the transition table gives that operation (start: Idle->Recording,
\* pause: Recording->Paused, resume: Paused->Recording, stop: Recording or
\* Paused->Idle), and a call made from a state where it is not legal changes
\* neither RecordingState nor committedText, starts no stream and emits no
\* final transcript.
C1_LegalTransitions ==
    [][ /\ (FreshStartStep /\ recordingState' # recordingState)
             => (recordingState = "idle" /\ recordingState' = "recording")
        /\ (Pause /\ recordingState' # recordingState)
             => (recordingState = "recording" /\ recordingState' = "paused")
        /\ ((Resume \/ ResumeStartStep) /\ recordingState' # recordingState)
             => (recordingState = "paused" /\ recordingState' = "recording")
        /\ (ClickStop /\ recordingState' # recordingState)
             => (recordingState \in {"recording", "paused"} /\ recordingState' = "idle")
        /\ (ClickStart /\ recordingState # "idle") => SessionUnchanged
        /\ (Pause /\ recordingState # "recording") => SessionUnchanged
        /\ (Resume /\ recordingState # "paused") => SessionUnchanged
        /\ (ClickStop /\ recordingState = "idle") => SessionUnchanged
      ]_vars

\* C2: when the current stream ends on its own (no pause, stop or error before
\* the end event) while RecordingState is Recording, a restart of the stream is
\* scheduled, RecordingState stays Recording and committedText is unchanged.
C2_AutoRestart ==
    [][ \A s \in 1..Len(streams) :
          (OnEnd(s) /\ streams[s].status = "active" /\ recognitionRef = s
                    /\ recordingState = "recording")
            => /\ restartTimers' # <<>>
               /\ recordingState' = "recording"
               /\ fullTranscriptRef' = fullTranscriptRef
      ]_vars

\* C3: an end event that fires while RecordingState is Paused or Idle (after a
\* pause or a stop) starts no stream, schedules no restart and changes neither
\* RecordingState nor the stream reference; no restart timer is ever pending
\* in those states.
C3_EndAfterPauseStopIsNoop ==
    [][ /\ \A s \in 1..Len(streams) :
             (OnEnd(s) /\ recordingState # "recording")
               => /\ UNCHANGED <<recordingState, recognitionRef, restartTimers,
                                 fullTranscriptRef, pendingStarts>>
                  /\ LiveStreams' \subseteq LiveStreams
        /\ (recordingState' # "recording") => (restartTimers' = <<>>)
      ]_vars

C3_Witness ==
    /\ lastEvent = "onend"
    /\ recordingState \in {"paused", "idle"}
    /\ completed # <<>> \/ recordingState = "paused"
    /\ LiveStreams = {}

\* C4: at most one recognition stream is started and not yet stopped or ended.
C4_OneStream == Cardinality(LiveStreams) <= 1

InterimOnly(ev) == \A k \in 1..Len(ev) : ~ev[k].isFinal

RewriteStep ==
    \E i \in 1..Len(analyses) : \E resp \in Responses(analyses[i]) :
        /\ AnalysisComplete(i, resp)
        /\ ~Failed(resp)
        /\ resp.formattedTranscript # Empty

\* C5: committedText only grows: a recognition event appends its finalized
\* segments, each followed by one space, and an interim-only event leaves it
\* unchanged; resume() preserves it; it is replaced only by a successful
\* pause-time rewrite and by a fresh start(), which resets it to empty.
C5_CommittedOnlyGrows ==
    [][ /\ \/ IsPrefix(fullTranscriptRef, fullTranscriptRef')
           \/ RewriteStep
           \/ FreshStartStep /\ fullTranscriptRef' = Empty
        /\ \A s \in 1..Len(streams), ev \in ResultEvents :
             OnResult(s, ev) =>
               /\ fullTranscriptRef' = fullTranscriptRef \o Finals(ev)
               /\ InterimOnly(ev) => fullTranscriptRef' = fullTranscriptRef
        /\ (Resume \/ ResumeStartStep) => fullTranscriptRef' = fullTranscriptRef
      ]_vars

\* committed text survived a resume: the current stream is the resumed one
C5_Witness ==
    /\ recognitionRef # 0
    /\ streams[recognitionRef].closure = "paused"
    /\ Live(recognitionRef)
    /\ lastEvent = ""
    /\ analyses # <<>>
    /\ fullTranscriptRef = <<"h", ".", " ">>

\* C6: stop() from Recording or Paused ends the current stream, clears the
\* stream reference, sets RecordingState to Idle and emits exactly one final
\* transcript, committedText trimmed; interim text is not part of it.
C6_StopEmitsCommitted ==
    [][ (ClickStop /\ recordingState \in {"recording", "paused"})
          => /\ recognitionRef' = 0
             /\ recordingState' = "idle"
             /\ completed' = Append(completed, Trim(fullTranscriptRef))
             /\ recognitionRef # 0 => recognitionRef \notin LiveStreams'
             /\ fullTranscriptRef' = fullTranscriptRef
      ]_vars

\* stopped with interim text on the display: the emitted transcript lacks it
C6_Witness ==
    /\ recordingState = "idle"
    /\ recognitionRef = 0
    /\ Len(completed) = 1
    /\ Last(completed) = <<"h", ".">>
    /\ transcript = <<"h", ".", " ", " ", "o">>
    /\ currentTranscript = Last(completed)

\* C7: pause() sets RecordingState to Paused in the step that issues the
\* analysis (which is then still in flight), and the arrival of an analysis
\* result never changes RecordingState.
C7_PauseImmediateAnalysisKeepsState ==
    [][ /\ (Pause /\ recordingState = "recording")
             => /\ recordingState' = "paused"
                /\ Trim(fullTranscriptRef) # Empty
                     => analyses' = Append(analyses, Trim(fullTranscriptRef))
        /\ \A i \in 1..Len(analyses) : \A resp \in Responses(analyses[i]) :
             AnalysisComplete(i, resp) => recordingState' = recordingState
      ]_vars

\* an analysis result arrived after the session had moved on from Paused
C7_Witness ==
    /\ lastEvent \in {"analysisRewrote", "analysisOverwrote",
                      "analysisOverwroteLive", "analysisFailed"}
    /\ recordingState \in {"recording", "idle"}

\* C8: when a pause-time analysis succeeds and returns a speaker-labeled
\* transcript, committedText, the recorder's display and the value given to
\* onTranscriptUpdate become exactly that text.
C8_RewriteReplacesAll ==
    [][ \A i \in 1..Len(analyses) : \A resp \in Responses(analyses[i]) :
          (AnalysisComplete(i, resp) /\ ~Failed(resp)
                                      /\ resp.formattedTranscript # Empty)
            => /\ fullTranscriptRef' = resp.formattedTranscript
               /\ transcript' = resp.formattedTranscript
               /\ currentTranscript' = resp.formattedTranscript
      ]_vars

C8_Witness ==
    /\ lastEvent = "analysisRewrote"
    /\ fullTranscriptRef = Labeled(<<"h", ".">>)
    /\ transcript = fullTranscriptRef
    /\ currentTranscript = fullTranscriptRef

\* C9: when a pause-time analysis fails (transport error, success=false or
\* missing data), committedText, the display, the consumer's live transcript,
\* RecordingState and the recorder's error message are unchanged.
C9_FailureChangesNothing ==
    [][ \A i \in 1..Len(analyses) : \A resp \in Responses(analyses[i]) :
          (AnalysisComplete(i, resp) /\ Failed(resp))
            => UNCHANGED <<fullTranscriptRef, transcript, currentTranscript,
                           recordingState, error, streams, recognitionRef>>
      ]_vars

C9_Witness ==
    /\ lastEvent = "analysisFailed"
    /\ fullTranscriptRef # Empty
    /\ analyses = <<>>

\* C10: resume() does not cancel an analysis in flight, and committedText is
\* last-write-wins: an analysis rewrite that lands after updates of the
\* resumed stream replaces them wholesale, and a recognition update that lands
\* after the rewrite appends to the rewritten text.
C10_LastWriteWins ==
    [][ /\ (Resume \/ GrantStep) => analyses' = analyses
        /\ \A i \in 1..Len(analyses) : \A resp \in Responses(analyses[i]) :
             (AnalysisComplete(i, resp) /\ ~Failed(resp)
                                         /\ resp.formattedTranscript # Empty)
               => fullTranscriptRef' = resp.formattedTranscript
        /\ \A s \in 1..Len(streams), ev \in ResultEvents :
             OnResult(s, ev)
               => fullTranscriptRef' = fullTranscriptRef \o Finals(ev)
      ]_vars

\* the rewrite landed after a result of the resumed stream (a final and an
\* interim segment: only a running stream delivers interim text, and the
\* paused stream was stopping) and dropped its final segment
C10_Witness ==
    /\ lastEvent = "analysisOverwroteLive"
    /\ recordingState = "recording"
    /\ Len(streams) = 2
    /\ streams[2].status = "active"
    /\ streams[2].closure = "paused"
    /\ fullTranscriptRef = Labeled(<<"h", ".">>)
    /\ nInputs = MaxInputs

\* C11: a start() that fails (microphone permission refused, or the stream's
\* start throwing) changes neither RecordingState nor committedText and ends
\* with an error message; without speech-recognition capability start() sets
\* the unsupported flag, the flag is never cleared, and from then on Start,
\* Pause/Resume and Stop are disabled and change nothing of the session.
C11_FailedStart ==
    [][ /\ \A i \in 1..Len(pendingStarts) :
             (PermissionDenied(i) /\ ~pendingStarts[i].isResume)
               => /\ UNCHANGED <<recordingState, fullTranscriptRef, streams>>
                  /\ error' = "mic-denied"
        /\ \A i \in 1..Len(pendingStarts) :
             (PermissionGranted(i, TRUE) /\ ~pendingStarts[i].isResume)
               => /\ UNCHANGED <<recordingState, fullTranscriptRef>>
                  /\ error' = "start-failed"
                  /\ LiveStreams' = LiveStreams
        /\ (ClickStart /\ ~StartDisabled /\ ~hasSR)
               => /\ ~isSupported'
                  /\ error' = "unsupported"
                  /\ recordingState' = "idle"
                  /\ SessionUnchanged
        /\ ~isSupported => ~isSupported'
        /\ (~isSupported /\ (ClickStart \/ Pause \/ Resume \/ ClickStop))
               => /\ SessionUnchanged
                  /\ StartDisabled' /\ StopDisabled'
      ]_vars

\* permission was refused for the start of a second session: the state is
\* still Idle and the text committed by the first session is still there
C11_Witness ==
    /\ error = "mic-denied"
    /\ recordingState = "idle"
    /\ pendingStarts = <<>>
    /\ Len(completed) = 1
    /\ fullTranscriptRef = <<"h", ".", " ">>

\* C12: the live transcript given to the consumer equals
\* trim(committedText + interimText) with interimText cleared by pause() and
\* stop(): right after an accepted pause() or stop() the consumer's live
\* transcript equals trim(committedText).
C12_LiveIsCommittedAfterPauseStop ==
    [][ ((Pause /\ recordingState = "recording" /\ ~StopDisabled)
          \/ (ClickStop /\ ~StopDisabled))
          => currentTranscript' = Trim(fullTranscriptRef')
      ]_vars

\* C13: a pause() that is accepted issues exactly one analyzer call, carrying
\* trim(committedText), when that text is non-empty and none when it is empty;
\* a stop() issues at most one analyzer call (for the final transcript); no
\* other step issues a call, so a call that failed is never retried.
C13_OneCallPerPauseStop ==
    [][ /\ (Pause /\ recordingState = "recording" /\ ~StopDisabled)
             => /\ analyses' = IF Trim(fullTranscriptRef) # Empty
                               THEN Append(analyses, Trim(fullTranscriptRef))
                               ELSE analyses
                /\ stopAnalyses' = stopAnalyses
        /\ ClickStop
             => /\ analyses' = analyses
                /\ \/ stopAnalyses' = stopAnalyses
                   \/ stopAnalyses' = Append(stopAnalyses,
                                             [transcript |-> Trim(fullTranscriptRef),
                                              snapshot |-> currentPatient])
        /\ Len(analyses') > Len(analyses) => Pause
        /\ Len(stopAnalyses') > Len(stopAnalyses) => ClickStop
        /\ \A i \in 1..Len(analyses) : \A resp \in Responses(analyses[i]) :
             (AnalysisComplete(i, resp) /\ Failed(resp))
               => /\ analyses' = RemoveAt(analyses, i)
                  /\ stopAnalyses' = stopAnalyses
        /\ \A i \in 1..Len(stopAnalyses) :
             \A resp \in StopResponses(stopAnalyses[i].transcript) :
               (RecordingAnalysed(i, resp) /\ Failed(resp))
                 => /\ stopAnalyses' = RemoveAt(stopAnalyses, i)
                    /\ analyses' = analyses
      ]_vars

\* paused with text committed: one call is in flight and carries the trimmed
\* text; no stop-time call has been made
C13_Witness ==
    /\ recordingState = "paused"
    /\ fullTranscriptRef = <<"h", ".", " ">>
    /\ analyses = << <<"h", ".">> >>
    /\ stopAnalyses = <<>>
    /\ lastEvent = ""

\* an incoming value that is present, non-empty and not the sentinel
Supplied(v) == v # Empty /\ v # NA /\ v # Absent

\* C14: when a stop-time analysis succeeds, every extracted field (the
\* identity, narrative and vitals fields and the speaker-labeled transcript)
\* becomes the extracted value if that is non-empty and not "N/A", and keeps
\* its current value otherwise.
C14_StopMergeByRule ==
    [][ \A i \in 1..Len(stopAnalyses) :
          \A resp \in StopResponses(stopAnalyses[i].transcript) :
            (RecordingAnalysed(i, resp) /\ ~Failed(resp))
              => \A f \in ExtractFields :
                   currentPatient'[f] = IF Supplied(resp.data[f])
                                        THEN resp.data[f] ELSE currentPatient[f]
      ]_vars

\* C15: the merge of a stop-time analysis into the record the request was made
\* for changes no field for which the extraction supplies "", "N/A" or
\* nothing: after a partial extraction every other field, formattedTranscript
\* included, is exactly as it was.
C15_MergeFrame ==
    [][ \A i \in 1..Len(stopAnalyses) :
          \A resp \in StopResponses(stopAnalyses[i].transcript) :
            (RecordingAnalysed(i, resp) /\ ~Failed(resp)
                                        /\ stopAnalyses[i].snapshot = currentPatient)
              => \A f \in ExtractFields :
                   ~Supplied(resp.data[f]) => currentPatient'[f] = currentPatient[f]
      ]_vars

\* C16: the merge is idempotent: merging the extraction of a successful
\* stop-time analysis into the record that merge produced gives that record
\* again, reconcile(reconcile(c, i), i) = reconcile(c, i).
C16_MergeIdempotent ==
    [][ \A i \in 1..Len(stopAnalyses) :
          \A resp \in StopResponses(stopAnalyses[i].transcript) :
            (RecordingAnalysed(i, resp) /\ ~Failed(resp))
              => /\ currentPatient' = UpdatedPatient(stopAnalyses[i].snapshot, resp.data,
                                                     stopAnalyses[i].transcript)
                 /\ UpdatedPatient(currentPatient', resp.data,
                                   stopAnalyses[i].transcript) = currentPatient'
      ]_vars

\* a partial extraction was merged into a record the user had typed a name into
C16_Witness ==
    /\ lastEvent = "stopAnalysisMerged"
    /\ currentPatient["patientName"] = <<"K">>
    /\ currentPatient["diagnosis"] = <<"d">>
    /\ currentPatient["transcript"] = <<"h", ".">>

\* C17: the sentinel "N/A" is never the value of a field of the record
\* (formattedTranscript included) nor the committed text.
C17_NoSentinelStored ==
    /\ \A f \in PatientFields : currentPatient[f] # NA
    /\ fullTranscriptRef # NA

\* C18: when a stop-time analysis fails, the record's transcript field becomes
\* the final transcript of that stop, every other field of the record is as it
\* was, the recorder (RecordingState included) is unaffected, and the
\* "Analysis failed" notice is shown.
C18_StopFailureKeepsRecord ==
    [][ \A i \in 1..Len(stopAnalyses) :
          \A resp \in StopResponses(stopAnalyses[i].transcript) :
            (RecordingAnalysed(i, resp) /\ Failed(resp))
              => /\ currentPatient'["transcript"] = stopAnalyses[i].transcript
                 /\ \A f \in PatientFields \ {"transcript"} :
                      currentPatient'[f] = currentPatient[f]
                 /\ UNCHANGED <<recordingState, fullTranscriptRef, error, streams>>
                 /\ toast' = "Analysis failed"
      ]_vars

\* the analysis of a stopped session failed after the user had loaded a saved
\* note: the note's fields are kept, its transcript is the final transcript
C18_Witness ==
    /\ lastEvent = "stopAnalysisFailed"
    /\ toast = "Analysis failed"
    /\ currentPatient["id"] = <<"1">>
    /\ currentPatient["patientName"] = <<"J">>
    /\ currentPatient["formattedTranscript"] = Labeled(<<"h", ".">>)
    /\ currentPatient["transcript"] = <<"h", ".", " ", "h", ".">>

\* C19: when a fresh start() has started its stream, the record has every
\* field empty and no identifier, whatever was loaded or edited before.
C19_RecordEmptyAtStart ==
    [][ FreshStartStep => currentPatient' = EmptyPatient ]_vars

\* C20: a successful pause-time analysis merges the structured fields it
\* returns into the current record.
C20_PauseMergesRecord ==
    [][ \A i \in 1..Len(analyses) : \A resp \in Responses(analyses[i]) :
          (AnalysisComplete(i, resp) /\ ~Failed(resp))
            => \A f \in MergedFields :
                 currentPatient'[f] = IF Supplied(PauseExtraction(resp)[f])
                                      THEN PauseExtraction(resp)[f]
                                      ELSE currentPatient[f]
      ]_vars

C26_RecordingHasStream ==
    [][ /\ recordingState' = "recording"
             => \/ LiveStreams' # {}
                \/ restartTimers' # <<>>
                \/ pendingStarts' # <<>>
        /\ \A i \in 1..Len(pendingStarts) :
             ((PermissionDenied(i) \/ PermissionGranted(i, TRUE))
                /\ pendingStarts[i].isResume)
               => recordingState' # "recording"
      ]_vars

\* C27: a pause-time analysis result that arrives after its session was
\* stopped (the stream reference is cleared, so every analysis in flight was
\* issued before that stop) changes neither committedText nor the consumer's
\* live transcript.
C27_LateAnalysisIgnored ==
    [][ \A i \in 1..Len(analyses) : \A resp \in Responses(analyses[i]) :
          (AnalysisComplete(i, resp) /\ recognitionRef = 0)
            => UNCHANGED <<fullTranscriptRef, currentTranscript>>
      ]_vars

\* C28: a successful stop-time analysis is merged into the record as it is
\* when the result arrives, so changes made to the record while the analysis
\* was in flight are kept.
C28_MergeIntoCurrentRecord ==
    [][ \A i \in 1..Len(stopAnalyses) :
          \A resp \in StopResponses(stopAnalyses[i].transcript) :
            (RecordingAnalysed(i, resp) /\ ~Failed(resp))
              => currentPatient' = UpdatedPatient(currentPatient, resp.data,
                                                  stopAnalyses[i].transcript)
      ]_vars

\* a stream that pause() or stop() has stopped, or that is not the current one
Stale(s) == streams[s].status = "stopping" \/ s # recognitionRef

\* C29: events of a stream that is no longer current change nothing of the
\* session: its error event does not move RecordingState from Paused or
\* Recording to Idle, and its result event does not modify committedText once
\* the final transcript has been emitted.
C29_StaleEventsIgnored ==
    [][ /\ \A s \in 1..Len(streams), kind \in ErrorKinds :
             (OnError(s, kind) /\ Stale(s)
                               /\ recordingState \in {"paused", "recording"})
               => recordingState' = recordingState
        /\ \A s \in 1..Len(streams), ev \in ResultEvents :
             (OnResult(s, ev) /\ Stale(s) /\ recordingState = "idle"
                              /\ completed # <<>>)
               => fullTranscriptRef' = fullTranscriptRef
      ]_vars

\* C24: mergePatientData never overwrites a non-empty existing field: for each
\* of name, age, gender, symptoms, medical history, diagnosis and treatment
\* plan the result is existing[f] when that is non-empty, else parsed[f] when
\* present, else existing[f]; every other field is returned unchanged.
C24_MergeHeuristicFillsGaps ==
    [][ MergeParsed
          => \A f \in PatientFields :
               merged'[f] = IF f \in ParsedFields /\ existing[f] = Empty
                               /\ parsed[f] # Absent
                            THEN parsed[f] ELSE existing[f]
      ]_vars

\* a parsed name met a name already present and was dropped, while the parsed
\* age filled the empty age
C24_Witness ==
    /\ parserStep = "merged"
    /\ parsed["patientName"] = Chars("I am Al")
    /\ existing["patientName"] = <<"x">>
    /\ merged["patientName"] = <<"x">>
    /\ existing["age"] = Empty
    /\ merged["age"] = Chars("41")
    /\ merged["id"] = existing["id"]

\* C25: for "I am John Smith, 34 years old. I have a bad headache and fever."
\* the parser yields patientName = "John Smith" (the captured name span of the
\* first match), age = "34" (the captured digits) and symptoms containing the
\* headache/fever sentence.
C25_ParserExample ==
    (parserStep # "input"
       /\ transcriptText =
            Chars("I am John Smith, 34 years old. I have a bad headache and fever."))
      => /\ parsed["patientName"] = Chars("John Smith")
         /\ parsed["age"] = Chars("34")
         /\ parsed["symptoms"] # Absent
         /\ Includes(parsed["symptoms"], Chars("i have a bad headache and fever"))

\* C21: a save is one store call for the current record: an update of its row
\* when the record has an identifier, else an insert of one new row; a save
\* with an empty or whitespace-only name makes no store call and leaves the
\* record and the table as they are; the table changes only by such a call
C21_SaveIsOneStoreCall ==
    [][ /\ HandleSavePatient =>
            IF Trim(currentPatient["patientName"]) = Empty
            THEN UNCHANGED <<saves, store, currentPatient>>
            ELSE /\ saves' = Append(saves,
                        [op |-> IF currentPatient["id"] # Empty
                                THEN "update" ELSE "insert",
                         patient |-> currentPatient, step |-> "store"])
                 /\ UNCHANGED <<store, currentPatient>>
        /\ \A i \in 1..Len(saves) :
            StoreResolved(i, TRUE) =>
                IF saves[i].patient["id"] # Empty
                THEN /\ Cardinality(store') = Cardinality(store)
                     /\ \A r \in store :
                            r["id"] # saves[i].patient["id"] => r \in store'
                     /\ \A r \in store' :
                            r["id"] = saves[i].patient["id"] =>
                                r["patientName"] = saves[i].patient["patientName"]
                ELSE /\ store \subseteq store'
                     /\ Cardinality(store') = Cardinality(store) + 1
                     /\ \A r \in store' \ store :
                            r["patientName"] = saves[i].patient["patientName"]
        /\ store' # store => \E i \in 1..Len(saves) : StoreResolved(i, TRUE)
      ]_vars

C21_Witness ==
    /\ toast = "Patient information updated"
    /\ Cardinality(store) = 1
    /\ \E r \in store : r["id"] = <<"1">> /\ r["patientName"] = <<"K">>

\* C22: when the store call of a save fails right after the save was asked for,
\* by the Save button or by "Save & Continue", the failure is shown and the
\* form still holds the record that was being saved
C22_FailedSaveKeepsRecord ==
    [][ \A i \in 1..Len(saves) :
            ( /\ StoreResolved(i, FALSE)
              /\ i = Len(saves)
              /\ lastEvent \in {"save", "saveAndNew"} ) =>
                /\ toast' = "Error saving patient"
                /\ currentPatient' = saves[i].patient
      ]_vars

\* C30: an insert that completes while another save of the same record without
\* identifier has already inserted its row does not add a second row for it
C30_OneRowPerRecord ==
    [][ \A i \in 1..Len(saves) :
            ( /\ StoreResolved(i, TRUE)
              /\ saves[i].op = "insert"
              /\ \E k \in 1..Len(saves) :
                    /\ k # i
                    /\ saves[k].op = "insert"
                    /\ saves[k].step = "reload"
                    /\ saves[k].patient = saves[i].patient ) =>
                Cardinality({r \in store' : r = Row(saves[i].patient, r["id"])}) <= 1
      ]_vars

====
